---------------------------- MODULE Spec2Model ----------------------------
(***************************************************************************)
(* A model of the VirtualList component of taro-list                       *)
(* (src/src/components/List/VirtualList/index.tsx) together with the two   *)
(* collaborators it drives: the SizeAndPositionManager and the             *)
(* VirutalListDataManager (whose sources are not part of the excerpt and   *)
(* are modelled from the specification, sections 4.1 and 4.3).             *)
(***************************************************************************)
EXTENDS Integers, Sequences, FiniteSets, TLC

(***************************************************************************)
(* Bounds of the model.                                                    *)
(***************************************************************************)
MaxCount == 4
MaxOffset == 1
MaxCalls == 2

\* JavaScript's undefined where a number is expected (an index, a size).
UndefinedNumber == 0 - 1
Null == "null"

Min(a, b) == IF a < b THEN a ELSE b
Max(a, b) == IF a > b THEN a ELSE b

(***************************************************************************)
(* Configuration values.  itemSize is a fixed number, a per-index function *)
(* or absent; every field is drawn from a small set.                       *)
(***************************************************************************)
Fixed(n) == [kind |-> "fixed", v |-> n]
\* A function is a value with an identity: two function objects that give
\* the same sizes are different values for !==.
PerIndex(id) == [kind |-> "fn", v |-> id]
NoItemSize == [kind |-> "undefined", v |-> 0]
ItemSizes == {Fixed(2), PerIndex(1), PerIndex(2), NoItemSize}
EstimatedSizes == {1, 3}
ItemCounts == {0, 2, MaxCount}
Overscans == {1}
\* stickyIndices is an array of distinct indices, or undefined.
Sticky(seq) == [isArray |-> TRUE, seq |-> seq]
NoSticky == [isArray |-> FALSE, seq |-> <<>>]
StickyChoices == {NoSticky, Sticky(<<1>>), Sticky(<<MaxCount - 1, 0>>)}
ContainerSizes == {0, 2}
Offsets == 0..MaxOffset
Directions == {"vertical", "horizontal"}

\* The data array of the data manager: n items, none equal to its index.
DataOf(n) == [i \in 1..n |-> 100 + (i - 1)]

(***************************************************************************)
(* types.ts                                                                *)
(***************************************************************************)
DEFAULT_ZINDEX == 10
sizeProp(dir) == IF dir = "vertical" THEN "height" ELSE "width"
positionProp(dir) == IF dir = "vertical" THEN "top" ELSE "left"

(***************************************************************************)
(* utils.ts                                                                *)
(***************************************************************************)
\* The per-index function used when itemSize is a function: 1, 2, 1, 2, ...
PerIndexSize(i) == 1 + (i % 2)

\* getItemSizeGetter(itemSize)(i): the known size of item i, if any.
getItemSizeGetter(itemSize, i) ==
    IF itemSize.kind = "undefined" THEN UndefinedNumber
    ELSE IF itemSize.kind = "fixed" THEN itemSize.v
    ELSE PerIndexSize(i)

\* getEstimatedGetter(estimatedSize, itemSize)(i): the uniform fallback.
getEstimatedGetter(estimatedSize, itemSize, i) == estimatedSize

\* A style value is a number, a string, or (once normalized) a CSS length.
Num(n) == [t |-> "number", n |-> n, s |-> ""]
Str(s) == [t |-> "string", n |-> 0, s |-> s]
Px(n) == [t |-> "px", n |-> n, s |-> ""]

\* normalizeValue: a number becomes a CSS length, a string is kept.
normalizeValue(v) == IF v.t = "number" THEN Px(v.n) ELSE v

normalizeStyle(s) ==
    [k \in DOMAIN s |->
        IF k \in {"width", "height", "left", "top"}
        THEN normalizeValue(s[k]) ELSE s[k]]

(***************************************************************************)
(* SizeAndPositionManager (specification section 4.1).  A manager is a     *)
(* record; every operation returns the manager it leaves behind.           *)
(***************************************************************************)
\* The field sizeAndPositionManager before componentDidMount assigns it.
UndefinedManager ==
    [defined |-> FALSE,
     itemCount |-> 0,
     itemSize |-> NoItemSize,
     estimatedSize |-> 0,
     lastMeasuredIndex |-> -1,
     data |-> <<>>]

NewManager(itemCount, itemSize, estimatedSize) ==
    [defined |-> TRUE,
     itemCount |-> itemCount,
     itemSize |-> itemSize,
     estimatedSize |-> estimatedSize,
     lastMeasuredIndex |-> -1,
     data |-> <<>>]

\* The size the getters give index i now.
SizeNow(m, i) ==
    IF getItemSizeGetter(m.itemSize, i) # UndefinedNumber
    THEN getItemSizeGetter(m.itemSize, i)
    ELSE getEstimatedGetter(m.estimatedSize, m.itemSize, i)

\* The record of index i: the cached one up to lastMeasuredIndex, beyond it
\* the cumulative sum continued from the last cached record.
RECURSIVE RecordOf(_, _)
RecordOf(m, i) ==
    IF i <= m.lastMeasuredIndex THEN m.data[i + 1]
    ELSE LET prev == IF i = 0 THEN [offset |-> 0, size |-> 0]
                     ELSE RecordOf(m, i - 1)
         IN [offset |-> prev.offset + prev.size, size |-> SizeNow(m, i)]

InRange(m, i) == 0 <= i /\ i < m.itemCount

\* getSizeAndPositionForIndex(i): [threw, m, rec].  An index outside
\* [0, itemCount) signals IndexOutOfRange.
getSizeAndPositionForIndex(m, i) ==
    IF ~InRange(m, i)
    THEN [threw |-> TRUE, m |-> m, rec |-> [offset |-> 0, size |-> 0]]
    ELSE [threw |-> FALSE,
          rec |-> RecordOf(m, i),
          m |-> IF i > m.lastMeasuredIndex
                   /\ getItemSizeGetter(m.itemSize, i) # UndefinedNumber
                THEN [m EXCEPT !.lastMeasuredIndex = i,
                               !.data = [j \in 1..(i + 1) |-> RecordOf(m, j - 1)]]
                ELSE m]

getSizeAndPositionOfLastMeasuredItem(m) ==
    IF m.lastMeasuredIndex >= 0 THEN m.data[m.lastMeasuredIndex + 1]
    ELSE [offset |-> 0, size |-> 0]

getTotalSize(m) ==
    IF m.itemCount = 0 THEN 0
    ELSE LET last == getSizeAndPositionOfLastMeasuredItem(m)
         IN last.offset + last.size
            + (m.itemCount - 1 - m.lastMeasuredIndex) * m.estimatedSize

\* getVisibleRange: [start, end, m]; start and end are undefined when the
\* range is empty.
getVisibleRange(m, containerSize, currentOffset, overscan) ==
    IF m.itemCount = 0 \/ containerSize <= 0
    THEN [start |-> UndefinedNumber, end |-> UndefinedNumber, m |-> m]
    ELSE LET idx == 0..(m.itemCount - 1)
             after == {i \in idx :
                          RecordOf(m, i).offset + RecordOf(m, i).size > currentOffset}
             first == IF after = {} THEN m.itemCount - 1
                      ELSE CHOOSE i \in after : \A j \in after : i <= j
             before == {i \in idx :
                          RecordOf(m, i).offset < currentOffset + containerSize}
             last0 == CHOOSE i \in before : \A j \in before : j <= i
             last == Max(first, last0)
         IN [start |-> Max(0, first - overscan),
            end |-> Min(m.itemCount - 1, last + overscan),
            m |-> getSizeAndPositionForIndex(m, last).m]

\* resetItem(index): forget every record from index on.
resetItem(m, index) ==
    LET l == Min(m.lastMeasuredIndex, index - 1)
    IN [m EXCEPT !.lastMeasuredIndex = l,
                 !.data = SubSeq(m.data, 1, l + 1)]

\* updateConfig({itemCount})
updateConfigCount(m, itemCount) ==
    LET l == Min(m.lastMeasuredIndex, itemCount - 1)
    IN [m EXCEPT !.itemCount = itemCount,
                 !.lastMeasuredIndex = l,
                 !.data = SubSeq(m.data, 1, l + 1)]

\* updateConfig({estimatedSizeGetter, itemSizeGetter})
updateConfigGetters(m, estimatedSize, itemSize) ==
    [m EXCEPT !.estimatedSize = estimatedSize, !.itemSize = itemSize]

(***************************************************************************)
(* VirutalListDataManager (specification sections 4.2 and 4.3): the        *)
(* configuration it holds and its coalescing scheduler.  timers counts the *)
(* deferred callbacks that are armed.                                      *)
(***************************************************************************)
NewDataManager(state) ==
    [state |-> state,
     timers |-> 0,
     destroyed |-> FALSE,
     updater |-> FALSE,
     onStateChange |-> FALSE]

\* __nextTickUpdate(): arm the deferred callback unless one is pending.
nextTickUpdate(d) ==
    IF d.destroyed \/ d.timers > 0 THEN d
    ELSE [d EXCEPT !.timers = 1]

\* destroy(): cancel the pending callback; the manager is released.
destroy(d) == [d EXCEPT !.timers = 0, !.destroyed = TRUE]

\* data[i] of a JavaScript array: undefined outside it.
ItemAt(data, i) ==
    IF 0 <= i /\ i < Len(data) THEN data[i + 1] ELSE UndefinedNumber

(***************************************************************************)
(* VirtualList (index.tsx).  vl is the component instance, w a "world":    *)
(* the instance, its data manager, the number of __nextTickUpdate calls    *)
(* made so far in the handler that is running, and the calls it has made   *)
(* to the SizeAndPositionManager, in order.                                *)
(***************************************************************************)
STYLE_INNER == [position |-> "relative"]

STYLE_ITEM ==
    [position |-> "absolute",
     width |-> Str("100%"),
     height |-> Str("auto"),
     left |-> Num(0),
     top |-> Num(0)]

EmptyCache == [i \in {} |-> 0]

NewVirtualList ==
    [delayUpdateTimer |-> Null,
     styleCache |-> EmptyCache,
     sizeAndPositionManager |-> UndefinedManager,
     needUpdate |-> TRUE,
     offset |-> 0]

World(v, d) == [vl |-> v, dm |-> d, calls |-> 0, trace |-> <<>>]

\* componentDidMount that registers the callbacks without a manager.
componentDidMountNoManager(w) ==
    [w EXCEPT !.dm.updater = TRUE, !.dm.onStateChange = TRUE]

componentDidMount(w) ==
    LET st == w.dm.state
    IN [w EXCEPT
          !.vl.sizeAndPositionManager =
              NewManager(st.itemCount, st.itemSize, st.estimatedSize),
          !.dm.updater = TRUE,
          !.dm.onStateChange = TRUE]

\* updateVirutalListDataRange that leaves the dirty flag set.
updateVirutalListDataRangeKeepDirty(w) ==
    IF ~w.vl.needUpdate THEN w
    ELSE [w EXCEPT !.dm = nextTickUpdate(w.dm),
                   !.calls = @ + 1]

updateVirutalListDataRange(w) ==
    IF ~w.vl.needUpdate THEN w
    ELSE [w EXCEPT !.dm = nextTickUpdate(w.dm),
                   !.calls = @ + 1,
                   !.vl.needUpdate = FALSE]

componentDidUpdate(w) == updateVirutalListDataRange(w)

\* Mutant: the unmount that forgets dataManager.destroy().
componentWillUnmountNoDestroy(w) == w

componentWillUnmount(w) ==
    \* delayUpdateTimer is never assigned: there is nothing to clear.
    [w EXCEPT !.dm = destroy(w.dm)]

\* Mutant: the test for an unchanged offset is missing.
setScrollOffsetAlways(w, scrollOffset) ==
    updateVirutalListDataRange(
        [w EXCEPT !.vl.offset = scrollOffset, !.vl.needUpdate = TRUE])

\* Mutant: the new offset is stored but the state is not marked dirty.
setScrollOffsetNotDirty(w, scrollOffset) ==
    IF w.vl.offset # scrollOffset
    THEN updateVirutalListDataRange([w EXCEPT !.vl.offset = scrollOffset])
    ELSE w

\* setScrollOffset that marks the state dirty after asking for the recompute.
setScrollOffsetDirtyAfter(w, scrollOffset) ==
    IF w.vl.offset # scrollOffset
    THEN [updateVirutalListDataRange([w EXCEPT !.vl.offset = scrollOffset])
            EXCEPT !.vl.needUpdate = TRUE]
    ELSE w

\* setScrollOffset that also throws the cached styles and measurements away.
setScrollOffsetRecompute(w, scrollOffset) ==
    IF w.vl.offset # scrollOffset
    THEN updateVirutalListDataRange(
             [w EXCEPT !.vl.offset = scrollOffset,
                       !.vl.needUpdate = TRUE,
                       !.vl.styleCache = EmptyCache,
                       !.vl.sizeAndPositionManager = resetItem(@, 0)])
    ELSE w

setScrollOffset(w, scrollOffset) ==
    IF w.vl.offset # scrollOffset
    THEN updateVirutalListDataRange(
             [w EXCEPT !.vl.offset = scrollOffset, !.vl.needUpdate = TRUE])
    ELSE w

\* Mutant: the style cache is cleared but the manager is not reset.
recomputeSizesNoReset(v, index) == [v EXCEPT !.styleCache = EmptyCache]

recomputeSizes(v, index) ==
    [v EXCEPT !.styleCache = EmptyCache,
              !.sizeAndPositionManager = resetItem(v.sizeAndPositionManager, index)]

\* this.forceUpdate() asks the framework for a re-render and changes
\* nothing of the instance; the framework calls componentDidUpdate after
\* that re-render.
forceUpdate(w) == w

\* onStateChange that renews the getters only when itemSize changed.
onStateChangeSizeOnly(w, prevState) ==
    LET st == w.dm.state
        m0 == w.vl.sizeAndPositionManager
        count == prevState.itemCount # st.itemCount
        getters == prevState.itemSize # st.itemSize
        m1 == IF count THEN updateConfigCount(m0, st.itemCount) ELSE m0
        m2 == IF getters
              THEN updateConfigGetters(m1, st.estimatedSize, st.itemSize) ELSE m1
        v1 == recomputeSizes([w.vl EXCEPT !.sizeAndPositionManager = m2], 0)
    IN forceUpdate(
           [w EXCEPT !.vl = v1,
                     !.trace = @ \o (IF count THEN <<"updateConfig(itemCount)">> ELSE <<>>)
                                 \o (IF getters THEN <<"updateConfig(getters)">> ELSE <<>>)
                                 \o <<"resetItem">>])

\* onStateChange that recomputes only when the list or its sizes changed.
onStateChangeLazy(w, prevState) ==
    LET st == w.dm.state
        m0 == w.vl.sizeAndPositionManager
        count == prevState.itemCount # st.itemCount
        getters == prevState.itemSize # st.itemSize
                   \/ prevState.estimatedSize # st.estimatedSize
        m1 == IF count THEN updateConfigCount(m0, st.itemCount) ELSE m0
        m2 == IF getters
              THEN updateConfigGetters(m1, st.estimatedSize, st.itemSize) ELSE m1
        v0 == [w.vl EXCEPT !.sizeAndPositionManager = m2]
        v1 == IF count \/ getters THEN recomputeSizes(v0, 0) ELSE v0
    IN forceUpdate(
           [w EXCEPT !.vl = v1,
                     !.trace = @ \o (IF count THEN <<"updateConfig(itemCount)">> ELSE <<>>)
                                 \o (IF getters THEN <<"updateConfig(getters)">> ELSE <<>>)
                                 \o (IF count \/ getters THEN <<"resetItem">> ELSE <<>>)])

\* onStateChange(prevState), called by the data manager once its state is
\* the new one.
onStateChange(w, prevState) ==
    LET st == w.dm.state
        m0 == w.vl.sizeAndPositionManager
        count == prevState.itemCount # st.itemCount
        getters == prevState.itemSize # st.itemSize
                   \/ prevState.estimatedSize # st.estimatedSize
        m1 == IF count THEN updateConfigCount(m0, st.itemCount) ELSE m0
        m2 == IF getters
              THEN updateConfigGetters(m1, st.estimatedSize, st.itemSize) ELSE m1
        v1 == recomputeSizes([w.vl EXCEPT !.sizeAndPositionManager = m2], 0)
    IN forceUpdate(
           [w EXCEPT !.vl = v1,
                     !.trace = @ \o (IF count THEN <<"updateConfig(itemCount)">> ELSE <<>>)
                                 \o (IF getters THEN <<"updateConfig(getters)">> ELSE <<>>)
                                 \o <<"resetItem">>])

\* render(): the styles of the outer and of the inner view.
render(v, props) ==
    LET totalSize == IF v.sizeAndPositionManager.defined
                     THEN getTotalSize(v.sizeAndPositionManager)
                     ELSE 0
    IN [outer |-> normalizeStyle([width |-> Num(props.width),
                                  height |-> Num(props.height)]),
        inner |-> STYLE_INNER
                  @@ (sizeProp(props.scrollDirection) :> normalizeValue(Num(totalSize)))]

getContainerSize(props) == props[sizeProp(props.scrollDirection)]

\* getStyle with a sticky item placed at its list offset.
getStyleStickyAtOffset(v, props, index, sticky) ==
    IF index \in DOMAIN v.styleCache
    THEN [threw |-> FALSE, vl |-> v, style |-> v.styleCache[index]]
    ELSE LET sp == getSizeAndPositionForIndex(v.sizeAndPositionManager, index)
             dir == props.scrollDirection
             itemStyle ==
                 [[STYLE_ITEM EXCEPT ![positionProp(dir)] = Num(sp.rec.offset),
                                     ![sizeProp(dir)] = Num(sp.rec.size)]
                    EXCEPT !.position = IF sticky THEN "sticky" ELSE "absolute"]
                 @@ ("zIndex" :> IF sticky THEN Num(DEFAULT_ZINDEX) ELSE Str("auto"))
         IN IF sp.threw
            THEN [threw |-> TRUE, vl |-> v, style |-> STYLE_ITEM]
            ELSE [threw |-> FALSE,
                  vl |-> [v EXCEPT !.sizeAndPositionManager = sp.m,
                                   !.styleCache = @ @@ (index :> normalizeStyle(itemStyle))],
                  style |-> normalizeStyle(itemStyle)]

\* getStyle(index, sticky): [threw, vl, style].
getStyle(v, props, index, sticky) ==
    IF index \in DOMAIN v.styleCache
    THEN [threw |-> FALSE, vl |-> v, style |-> v.styleCache[index]]
    ELSE LET sp == getSizeAndPositionForIndex(v.sizeAndPositionManager, index)
             dir == props.scrollDirection
             size == sp.rec.size
             itemStyle ==
                 IF sticky
                 THEN [[STYLE_ITEM EXCEPT ![positionProp(dir)] = Num(0),
                                          ![sizeProp(dir)] = Num(size)]
                         EXCEPT !.position = "sticky"]
                      @@ ("zIndex" :> Num(DEFAULT_ZINDEX))
                 ELSE [STYLE_ITEM EXCEPT ![positionProp(dir)] = Num(sp.rec.offset),
                                         ![sizeProp(dir)] = Num(size)]
                      @@ ("zIndex" :> Str("auto"))
         IN IF sp.threw
            THEN [threw |-> TRUE, vl |-> v, style |-> STYLE_ITEM]
            ELSE [threw |-> FALSE,
                  vl |-> [v EXCEPT !.sizeAndPositionManager = sp.m,
                                   !.styleCache = @ @@ (index :> normalizeStyle(itemStyle))],
                  style |-> normalizeStyle(itemStyle)]

\* The calls of getStyle that update makes, in order: every sticky index,
\* then start..end without the sticky ones.
Includes(seq, i) == \E k \in 1..Len(seq) : seq[k] = i

\* Mutant: the loop does not skip the sticky indices.
RangeWorkNoSkip(i, end, sticky) ==
    [k \in 1..(IF i > end THEN 0 ELSE end - i + 1) |->
        [index |-> i + k - 1, sticky |-> FALSE]]

RECURSIVE RangeWork(_, _, _)
RangeWork(i, end, sticky) ==
    IF i > end THEN <<>>
    ELSE IF sticky.isArray /\ Includes(sticky.seq, i)
         THEN RangeWork(i + 1, end, sticky)
         ELSE <<[index |-> i, sticky |-> FALSE]>> \o RangeWork(i + 1, end, sticky)

StickyWork(sticky) ==
    IF sticky.isArray
    THEN [k \in 1..Len(sticky.seq) |-> [index |-> sticky.seq[k], sticky |-> TRUE]]
    ELSE <<>>

\* The body of "if (start !== undefined && end !== undefined)".
Work(start, end, sticky) ==
    StickyWork(sticky) \o RangeWork(start, end, sticky)

\* items.push({index, style: getStyle(index, sticky), item: data[index]}) for
\* each entry of work, stopping at the first getStyle that throws.
RECURSIVE PushAll(_, _, _, _)
PushAll(acc, work, props, data) ==
    IF work = <<>> \/ acc.threw THEN acc
    ELSE LET g == getStyle(acc.vl, props, Head(work).index, Head(work).sticky)
         IN PushAll(
                [threw |-> g.threw,
                 vl |-> g.vl,
                 items |-> IF g.threw THEN acc.items
                           ELSE Append(acc.items,
                                       [index |-> Head(work).index,
                                        style |-> g.style,
                                        item |-> ItemAt(data, Head(work).index)])],
                Tail(work), props, data)

\* update(data): [threw, vl, items, range, seen]; seen is what the call read.
update(v, st, props) ==
    LET range == getVisibleRange(v.sizeAndPositionManager, getContainerSize(props),
                                 v.offset, st.overscan)
        v1 == [v EXCEPT !.sizeAndPositionManager = range.m]
        work == IF range.start # UndefinedNumber /\ range.end # UndefinedNumber
                THEN Work(range.start, range.end, st.stickyIndices)
                ELSE <<>>
        r == PushAll([threw |-> FALSE, vl |-> v1, items |-> <<>>], work, props, st.data)
    IN [threw |-> r.threw,
        vl |-> r.vl,
        items |-> IF r.threw THEN <<>> ELSE r.items,
        range |-> [start |-> range.start, end |-> range.end],
        seen |-> [offset |-> v.offset,
                  itemCount |-> v.sizeAndPositionManager.itemCount,
                  itemSize |-> v.sizeAndPositionManager.itemSize,
                  estimatedSize |-> v.sizeAndPositionManager.estimatedSize]]

(***************************************************************************)
(* The state machine.                                                      *)
(***************************************************************************)
VARIABLES
    vl,      \* the VirtualList instance
    dm,      \* props.dataManager
    props,   \* width, height, scrollDirection
    phase,   \* "constructed", "mounted" or "unmounted"
    reqs,    \* __nextTickUpdate calls since update last ran
    written, \* the argument of the latest setScrollOffset call
    ev       \* the latest handler: what ran and what it did

vars == <<vl, dm, props, phase, reqs, written, ev>>

NoRange == [start |-> UndefinedNumber, end |-> UndefinedNumber]
NoSeen == [offset |-> 0, itemCount |-> 0, itemSize |-> NoItemSize, estimatedSize |-> 0]

\* What the handler found when it was called.
Pre ==
    [cached |-> Cardinality(DOMAIN vl.styleCache),
     measured |-> vl.sizeAndPositionManager.lastMeasuredIndex,
     itemCount |-> vl.sizeAndPositionManager.itemCount,
     itemSize |-> vl.sizeAndPositionManager.itemSize,
     estimatedSize |-> vl.sizeAndPositionManager.estimatedSize,
     reqs |-> reqs]

NoOutput == [outer |-> STYLE_INNER, inner |-> STYLE_INNER]

Event(op, arg, calls, trace) ==
    [op |-> op, arg |-> arg, calls |-> calls, trace |-> trace, pre |-> Pre,
     threw |-> FALSE, items |-> <<>>, range |-> NoRange, seen |-> NoSeen,
     out |-> NoOutput]

\* The sticky indices of a valid configuration are indices of the list.
ValidSticky(sticky, itemCount) ==
    \A k \in 1..Len(sticky.seq) : sticky.seq[k] < itemCount

States ==
    {[itemCount |-> n, itemSize |-> sz, estimatedSize |-> e, overscan |-> o,
      stickyIndices |-> sk, data |-> DataOf(n)] :
        n \in ItemCounts, sz \in ItemSizes, e \in EstimatedSizes,
        o \in Overscans, sk \in StickyChoices}

Props ==
    {[scrollDirection |-> d,
      height |-> IF d = "vertical" THEN c ELSE 0,
      width |-> IF d = "vertical" THEN 0 ELSE c] :
        d \in Directions, c \in ContainerSizes}

Init ==
    /\ vl = NewVirtualList
    /\ \E st \in States :
          /\ ValidSticky(st.stickyIndices, st.itemCount)
          /\ dm = NewDataManager(st)
    /\ props \in Props
    /\ phase = "constructed"
    /\ reqs = 0
    /\ written = 0
    /\ ev = Event("constructor", 0, 0, <<>>)

\* Install the world a handler leaves behind.
Apply(w, op, arg) ==
    /\ vl' = w.vl
    /\ dm' = w.dm
    /\ reqs' = reqs + w.calls
    /\ ev' = Event(op, arg, w.calls, w.trace)

ComponentDidMount ==
    /\ phase = "constructed"
    /\ phase' = "mounted"
    /\ Apply(componentDidMount(World(vl, dm)), "componentDidMount", 0)
    /\ UNCHANGED <<props, written>>

\* render() runs before componentDidMount and on every re-render; out is
\* what it returns.
Render ==
    /\ phase \in {"constructed", "mounted"}
    /\ ev' = [Event("render", 0, 0, <<>>) EXCEPT !.out = render(vl, props)]
    /\ UNCHANGED <<vl, dm, props, phase, reqs, written>>

\* The framework re-renders the list and calls componentDidUpdate: in the
\* same turn on some targets, in a later one (the ComponentDidUpdate step)
\* on others.
Rerender(w, sync) == IF sync THEN componentDidUpdate(w) ELSE w

\* The two answers differ only while needUpdate is set.
Answers(v) == IF v.needUpdate THEN BOOLEAN ELSE {FALSE}

\* The parent re-renders the list with new props.
ReceiveProps ==
    /\ phase = "mounted"
    /\ reqs < MaxCalls
    /\ \E p \in Props \ {props}, sync \in Answers(vl) :
          /\ props' = p
          /\ Apply(Rerender(World(vl, dm), sync), "receiveProps", 0)
    /\ UNCHANGED <<phase, written>>

ComponentDidUpdate ==
    /\ phase = "mounted"
    /\ reqs < MaxCalls
    /\ Apply(componentDidUpdate(World(vl, dm)), "componentDidUpdate", 0)
    /\ UNCHANGED <<props, phase, written>>

\* updateVirutalListDataRange is public: a caller can run it at any time.
UpdateVirutalListDataRange ==
    /\ phase \in {"constructed", "mounted", "unmounted"}
    /\ reqs < MaxCalls
    /\ Apply(updateVirutalListDataRange(World(vl, dm)),
             "updateVirutalListDataRange", 0)
    /\ UNCHANGED <<props, phase, written>>

SetScrollOffset ==
    /\ phase \in {"constructed", "mounted", "unmounted"}
    /\ reqs < MaxCalls
    /\ \E x \in Offsets :
          /\ Apply(setScrollOffset(World(vl, dm), x), "setScrollOffset", x)
          /\ written' = x
    /\ UNCHANGED <<props, phase>>

\* dataManager.updateConfig: the state changes, then onStateChange(prevState),
\* whose forceUpdate the framework answers in the same turn or later.
\* One field changes, or itemCount together with itemSize.
ConfigChanges(st) ==
    {[st EXCEPT !.itemCount = n, !.data = DataOf(n)] : n \in ItemCounts}
    \cup {[st EXCEPT !.itemSize = sz] : sz \in ItemSizes}
    \cup {[st EXCEPT !.estimatedSize = e] : e \in EstimatedSizes}
    \cup {[st EXCEPT !.overscan = o] : o \in Overscans}
    \cup {[st EXCEPT !.stickyIndices = sk] : sk \in StickyChoices}
    \cup {[st EXCEPT !.itemCount = n, !.data = DataOf(n), !.itemSize = sz] :
             n \in ItemCounts, sz \in ItemSizes}

UpdateConfig ==
    /\ phase = "mounted"
    /\ ~dm.destroyed /\ dm.onStateChange
    /\ reqs < MaxCalls
    /\ \E st \in ConfigChanges(dm.state) \ {dm.state}, sync \in Answers(vl) :
          Apply(Rerender(onStateChange(World(vl, [dm EXCEPT !.state = st]),
                                       dm.state), sync),
                "onStateChange", 0)
    /\ UNCHANGED <<props, phase, written>>

\* The deferred callback fires: the data manager calls the updater.
Fire ==
    /\ dm.timers > 0 /\ dm.updater
    /\ LET r == update(vl, dm.state, props)
       IN /\ vl' = r.vl
          /\ ev' = [op |-> "update", arg |-> 0, calls |-> 0, trace |-> <<>>,
                    pre |-> Pre, threw |-> r.threw, items |-> r.items, range |-> r.range,
                    seen |-> r.seen, out |-> NoOutput]
    /\ dm' = [dm EXCEPT !.timers = @ - 1]
    /\ reqs' = 0
    /\ UNCHANGED <<props, phase, written>>

ComponentWillUnmount ==
    /\ phase = "mounted"
    /\ phase' = "unmounted"
    /\ Apply(componentWillUnmount(World(vl, dm)), "componentWillUnmount", 0)
    /\ UNCHANGED <<props, written>>

Next ==
    \/ Render
    \/ ComponentDidMount
    \/ ComponentDidUpdate
    \/ ReceiveProps
    \/ UpdateVirutalListDataRange
    \/ SetScrollOffset
    \/ UpdateConfig
    \/ Fire
    \/ ComponentWillUnmount

Spec == Init /\ [][Next]_vars

(***************************************************************************)
(* The same handlers under the scheduling the platform guarantees: a       *)
(* callback armed with nextTick is run, and a constructed component is     *)
(* mounted.  The configurations are those of a vertical list whose         *)
(* container height, itemCount, estimatedSize, itemSize (a number or a     *)
(* per-index function) and stickyIndices (none or [1]) change.             *)
(***************************************************************************)
LiveStates ==
    {st \in States : /\ st.itemSize \in {Fixed(2), PerIndex(1)}
                     /\ st.stickyIndices \in {NoSticky, Sticky(<<1>>)}}

LiveProps == {p \in Props : p.scrollDirection = "vertical"}

LiveInit ==
    /\ Init
    /\ dm.state \in LiveStates
    /\ props \in LiveProps

LiveReceiveProps ==
    /\ ReceiveProps
    /\ props' \in LiveProps

LiveUpdateConfig ==
    /\ UpdateConfig
    /\ dm'.state \in LiveStates

LiveNext ==
    \/ Render
    \/ ComponentDidMount
    \/ ComponentDidUpdate
    \/ LiveReceiveProps
    \/ UpdateVirutalListDataRange
    \/ SetScrollOffset
    \/ LiveUpdateConfig
    \/ Fire
    \/ ComponentWillUnmount

\* What Fire does to the data manager: an armed callback runs the
\* registered updater and is spent.  No other handler leaves dm like this,
\* so the steps of Callback that change dm are the steps of Fire, and
\* Callback can change dm exactly when Fire can be taken.
Callback ==
    /\ dm.timers > 0 /\ dm.updater
    /\ dm' = [dm EXCEPT !.timers = @ - 1]

LiveSpec ==
    /\ LiveInit
    /\ [][LiveNext]_vars
    /\ WF_dm(Callback)
    /\ WF_vars(ComponentDidMount)

(***************************************************************************)
(* The claims.                                                             *)
(***************************************************************************)
Manager == vl.sizeAndPositionManager

\* A step in which update ran (every other handler names itself in ev).
UpdateRan == ev'.op = "update"

\* C1 as claimed (coalescing): any N >= 1 mutations of a mounted list
\* made before the deferred callback fires (setScrollOffset calls with a
\* new offset and/or configuration changes, each followed by the
\* componentDidUpdate of its re-render) leave exactly one callback armed;
\* when it fires update runs once, no callback and no unanswered request is
\* left, and update reads the offset last written by setScrollOffset and
\* the configuration the data manager holds at that time.  A configuration
\* change that finds needUpdate false arms nothing, so update runs zero
\* times for it.
C1_Claimed ==
    /\ [](/\ dm.timers <= 1
          /\ (reqs >= 1 /\ ~dm.destroyed => dm.timers = 1))
    /\ [][/\ phase = "mounted" /\ phase' = "mounted"
          /\ \/ ev'.op = "setScrollOffset" /\ ev'.arg # vl.offset
             \/ ev.op = "onStateChange" /\ ev'.op = "componentDidUpdate"
          => dm'.timers = 1]_vars
    /\ [][UpdateRan =>
            /\ reqs >= 1 /\ dm.timers = 1
            /\ dm'.timers = 0 /\ reqs' = 0
            /\ ev'.seen.offset = written
            /\ ev'.seen.itemCount = dm.state.itemCount
            /\ ev'.seen.itemSize = dm.state.itemSize
            /\ ev'.seen.estimatedSize = dm.state.estimatedSize]_vars

\* C2 (cancellation): once the list is unmounted no deferred callback is
\* armed and update never runs again.
C2_Cancellation ==
    /\ [](dm.destroyed => dm.timers = 0)
    /\ [][phase = "unmounted" => ~UpdateRan]_vars

\* The list was unmounted while a requested recompute had not yet run.
C2_Witness ==
    /\ phase = "unmounted" /\ ev.op = "componentWillUnmount"
    /\ ev.pre.reqs >= 1 /\ dm.timers = 0

\* The indices of a render list, the current sticky indices (none when
\* stickyIndices is no array) and the indices start..end that are not sticky.
IndicesOf(items) == [k \in 1..Len(items) |-> items[k].index]
StickySeq == IF dm.state.stickyIndices.isArray THEN dm.state.stickyIndices.seq ELSE <<>>
IsSticky(i) == \E k \in 1..Len(StickySeq) : StickySeq[k] = i
RangeSeq(start, end) ==
    LET all == [k \in 1..(IF start > end THEN 0 ELSE end - start + 1) |-> start + k - 1]
    IN SelectSeq(all, LAMBDA i : ~IsSticky(i))
Positions(seq, i) == {k \in 1..Len(seq) : seq[k] = i}

\* update has just returned a list (it did not throw).
Returned == ev.op = "update" /\ ~ev.threw
RangeDefined == ev.range.start # UndefinedNumber /\ ev.range.end # UndefinedNumber
StickyComplete ==
    /\ Len(ev.items) >= Len(StickySeq)
    /\ SubSeq(IndicesOf(ev.items), 1, Len(StickySeq)) = StickySeq
    /\ \A k \in 1..Len(StickySeq) :
          Cardinality(Positions(IndicesOf(ev.items), StickySeq[k])) = 1

\* C3 as claimed (sticky completeness): every list update returns holds
\* every sticky index exactly once, in the given order, also when the
\* visible range is empty (stated for the configurations whose sticky
\* indices are indices of the list).
C3_Claimed ==
    Returned /\ ValidSticky(dm.state.stickyIndices, dm.state.itemCount)
        => StickyComplete

\* C4 (order and uniqueness): for a non-empty visible range the list update
\* returns is the sticky indices in their order, then start..end ascending
\* without the sticky ones, and no index appears twice.
C4_OrderUnique ==
    Returned /\ RangeDefined =>
        /\ IndicesOf(ev.items) = StickySeq \o RangeSeq(ev.range.start, ev.range.end)
        /\ \A k \in 1..Len(ev.items) :
              Cardinality(Positions(IndicesOf(ev.items), ev.items[k].index)) = 1

\* update returned a list whose range holds a sticky index and at least two
\* other indices.
C4_Witness ==
    /\ Returned /\ RangeDefined
    /\ \E k \in 1..Len(StickySeq) :
          ev.range.start <= StickySeq[k] /\ StickySeq[k] <= ev.range.end
    /\ Len(ev.items) >= Len(StickySeq) + 2

\* A setScrollOffset step, and its argument.
ScrollCall == ev'.op = "setScrollOffset"

\* C5: setScrollOffset with the current offset changes nothing of the
\* instance (offset, needUpdate, style cache, manager) or of the data
\* manager and makes no __nextTickUpdate call.
C5_SameOffsetNoOp ==
    [][ScrollCall /\ ev'.arg = vl.offset =>
          /\ vl' = vl /\ dm' = dm
          /\ ev'.calls = 0 /\ reqs' = reqs]_vars

\* setScrollOffset was called on a mounted list with the offset it already
\* had, a non-zero one, while styles were cached.
C5_Witness ==
    /\ ev.op = "setScrollOffset" /\ ev.calls = 0 /\ ev.arg = vl.offset
    /\ phase = "mounted" /\ vl.offset # 0 /\ ev.pre.cached > 0

\* C6: on a mounted list setScrollOffset with another offset stores it and
\* calls __nextTickUpdate once in that call, whatever needUpdate was (the
\* call marks the state dirty and the request clears the mark again).
C6_NewOffsetRequests ==
    [][ScrollCall /\ ev'.arg # vl.offset /\ phase = "mounted" =>
          /\ vl'.offset = ev'.arg
          /\ ev'.calls = 1 /\ reqs' = reqs + 1
          /\ vl'.needUpdate = FALSE]_vars

\* setScrollOffset stored a new offset and armed the callback on a mounted
\* list whose needUpdate had been cleared before.
C6_Witness ==
    /\ ev.op = "setScrollOffset" /\ ev.calls = 1 /\ phase = "mounted"
    /\ vl.offset = ev.arg /\ vl.offset # 0 /\ ev.pre.reqs = 0
    /\ ev.pre.measured >= 0 /\ dm.timers = 1

\* An onStateChange step, and what the configuration change was.
StateChangeCall == ev'.op = "onStateChange"
CountChanged == dm'.state.itemCount # dm.state.itemCount
SizeChanged ==
    \/ dm'.state.itemSize # dm.state.itemSize
    \/ dm'.state.estimatedSize # dm.state.estimatedSize

\* onStateChange has just run for a change of itemCount, itemSize or
\* estimatedSize.
AfterSizeOrCountChange ==
    /\ ev.op = "onStateChange"
    /\ \/ ev.pre.itemCount # Manager.itemCount
       \/ ev.pre.itemSize # Manager.itemSize
       \/ ev.pre.estimatedSize # Manager.estimatedSize

\* C7 as claimed: a change of itemCount, itemSize or estimatedSize
\* delivered to onStateChange triggers the scheduler: once the re-render
\* that onStateChange asked for has run componentDidUpdate, a recompute is
\* pending (a deferred callback is armed), also when needUpdate was false
\* and no recompute was pending.
C7_Claimed ==
    [][AfterSizeOrCountChange /\ ev'.op = "componentDidUpdate"
          => dm'.timers >= 1]_vars

\* C8: when onStateChange returns from a change of itemSize or
\* estimatedSize, the style cache is empty and the manager is invalidated
\* from index 0: lastMeasuredIndex is -1 and no record is kept.
C8_SizeChangeInvalidates ==
    [][StateChangeCall /\ SizeChanged =>
          /\ DOMAIN vl'.styleCache = {}
          /\ vl'.sizeAndPositionManager.lastMeasuredIndex = -1
          /\ vl'.sizeAndPositionManager.data = <<>>]_vars

\* onStateChange has just handled a change of itemSize or estimatedSize
\* that found cached styles and measured items.
C8_Witness ==
    /\ ev.op = "onStateChange"
    /\ ev.pre.itemSize # Manager.itemSize \/ ev.pre.estimatedSize # Manager.estimatedSize
    /\ ev.pre.cached >= 2 /\ ev.pre.measured >= 1
    /\ DOMAIN vl.styleCache = {} /\ Manager.lastMeasuredIndex = -1

\* C9 as claimed (destroyed is terminal): after componentWillUnmount no
\* call changes the instance or the data manager, and none calls
\* __nextTickUpdate.
C9_Claimed ==
    [][phase = "unmounted" => vl' = vl /\ dm' = dm /\ ev'.calls = 0]_vars

\* The scroll-axis size and offset of a cached style.
StyleSize(st) == st[sizeProp(props.scrollDirection)]
StyleOffset(st) == st[positionProp(props.scrollDirection)]

\* C10 as claimed (style cache coherence): in every state every cached
\* style belongs to an index of the list, its scroll-axis size is the size
\* the manager gives that index now, and unless it is sticky its
\* scroll-axis offset is the offset the manager gives that index now.  A
\* re-render with another scrollDirection keeps the styles cached for the
\* old axis.
C10_Claimed ==
    \A i \in DOMAIN vl.styleCache :
        /\ InRange(Manager, i)
        /\ StyleSize(vl.styleCache[i]) = Px(RecordOf(Manager, i).size)
        /\ vl.styleCache[i].position # "sticky" =>
              StyleOffset(vl.styleCache[i]) = Px(RecordOf(Manager, i).offset)

\* The entries of a returned list: the first ones come from the sticky
\* loop (getStyle(i, true)), the rest from the range loop (getStyle(i)).
FromStickyLoop(k) == k <= Len(StickySeq)

\* C11 (style computation on a cache miss): when update computes the style
\* of an index that had no cached style, a sticky call yields position
\* 'sticky', scroll-axis offset 0 and the elevated zIndex; a normal call
\* yields position 'absolute', the manager's offset of the index and zIndex
\* 'auto'; either way the scroll-axis size is the manager's size of the index.
C11_StyleOnMiss ==
    [][UpdateRan /\ ~ev'.threw =>
          \A k \in 1..Len(ev'.items) :
              LET e == ev'.items[k]
                  rec == RecordOf(vl'.sizeAndPositionManager, e.index)
              IN e.index \notin DOMAIN vl.styleCache =>
                    /\ StyleSize(e.style) = Px(rec.size)
                    /\ IF FromStickyLoop(k)
                       THEN /\ e.style.position = "sticky"
                            /\ StyleOffset(e.style) = Px(0)
                            /\ e.style.zIndex = Num(DEFAULT_ZINDEX)
                       ELSE /\ e.style.position = "absolute"
                            /\ StyleOffset(e.style) = Px(rec.offset)
                            /\ e.style.zIndex = Str("auto")]_vars

\* An update that started with an empty cache returned a sticky item whose
\* list offset is not 0 and a normal item at a non-zero offset.
C11_Witness ==
    /\ Returned
    /\ ev.pre.cached = 0
    /\ \E k \in 1..Len(ev.items) :
          /\ FromStickyLoop(k)
          /\ RecordOf(Manager, ev.items[k].index).offset > 0
    /\ \E k \in 1..Len(ev.items) :
          /\ ~FromStickyLoop(k)
          /\ RecordOf(Manager, ev.items[k].index).offset > 0

\* The cross-axis extent of a style: the dimension that is not the scroll
\* axis.
CrossSize(st) == IF props.scrollDirection = "vertical" THEN st.width ELSE st.height

\* The styles update computed in this step: those of the returned entries
\* whose index had no cached style.
ComputedStyles ==
    {ev'.items[k].style :
        k \in {j \in 1..Len(ev'.items) : ev'.items[j].index \notin DOMAIN vl.styleCache}}

\* C12 as claimed (cross-axis extent): for every index, both scroll
\* directions, sticky or not, the cross-axis extent of the computed style is
\* '100%'.
C12_Claimed ==
    [][UpdateRan => \A st \in ComputedStyles : CrossSize(st) = Str("100%")]_vars

C14_ChangeDetection ==
    [][StateChangeCall =>
          /\ ev'.trace =
                (IF CountChanged THEN <<"updateConfig(itemCount)">> ELSE <<>>)
                \o (IF SizeChanged THEN <<"updateConfig(getters)">> ELSE <<>>)
                \o <<"resetItem">>
          /\ vl'.sizeAndPositionManager =
                NewManager(dm'.state.itemCount, dm'.state.itemSize,
                           dm'.state.estimatedSize)]_vars

\* onStateChange has run for a change of both itemCount and itemSize and
\* made the three calls.
C14_Witness ==
    /\ ev.op = "onStateChange"
    /\ ev.pre.itemCount # dm.state.itemCount
    /\ ev.pre.itemSize # dm.state.itemSize
    /\ Len(ev.trace) = 3

\* updateVirutalListDataRange ran by itself: as componentDidUpdate, or
\* called directly.
DidUpdateCall == ev'.op \in {"componentDidUpdate", "updateVirutalListDataRange"}

\* componentDidUpdate requests a recompute only if needUpdate is set, and
\* clears it.
DidUpdateGuarded ==
    DidUpdateCall =>
        /\ ev'.calls = IF vl.needUpdate THEN 1 ELSE 0
        /\ ~vl'.needUpdate

\* Once needUpdate is clear, no step but setScrollOffset sets it or
\* requests a recompute: any number of componentDidUpdate calls without a
\* change of offset make at most one request in total.
CleanStaysClean ==
    ~vl.needUpdate /\ ~ScrollCall => ~vl'.needUpdate /\ ev'.calls = 0

\* C15 as claimed (no over-firing): componentDidUpdate requests only if
\* needUpdate is set and clears it; after any setScrollOffset or
\* componentDidUpdate returns, needUpdate is false; consecutive
\* componentDidUpdate calls without a change of offset make at most one
\* request in total.
C15_Claimed ==
    [][/\ DidUpdateGuarded
       /\ ScrollCall => ~vl'.needUpdate
       /\ CleanStaysClean]_vars

\* C15 (no over-firing, as the code has it): componentDidUpdate requests
\* only if needUpdate is set and clears it; needUpdate is false after any
\* componentDidUpdate and after any setScrollOffset whose argument differs
\* from the stored offset, while a setScrollOffset with the stored offset
\* leaves needUpdate as it was; consecutive componentDidUpdate calls without
\* a change of offset make at most one request in total.
C15_NoOverFiring ==
    [][/\ DidUpdateGuarded
       /\ ScrollCall =>
             vl'.needUpdate = (IF ev'.arg # vl.offset THEN FALSE ELSE vl.needUpdate)
       /\ CleanStaysClean]_vars

\* A second componentDidUpdate found needUpdate clear and requested nothing
\* while the request of the first one was still pending.
C15_Witness ==
    /\ ev.op = "componentDidUpdate"
    /\ ev.calls = 0
    /\ ev.pre.reqs = 1
    /\ reqs = 1
    /\ vl.offset = 0
    /\ ~vl.needUpdate

\* A recompute is pending: a deferred callback is armed.
Pending == dm.timers > 0

\* A step of the application: a scroll, a configuration change, new props,
\* a direct call of updateVirutalListDataRange, or the unmount.
ExternalEvent ==
    ev'.op \in {"setScrollOffset", "onStateChange", "receiveProps",
                "updateVirutalListDataRange", "componentWillUnmount"}

\* C16 (quiescence): running update requests no recompute and leaves none
\* pending; the componentDidUpdate of the re-render that update causes
\* requests none either; while a recompute is pending it is a single
\* deferred callback, with update registered to run once the list is
\* mounted; the steps in which the armed callback is spent are the steps
\* in which update runs; every pending recompute is eventually no longer
\* pending; once none is pending, only a step in which a handler made a
\* request (after update has run: only setScrollOffset) makes one pending
\* again; and if the application's events are finitely many, from some
\* point on no recompute is pending ever again.
C16_Quiescence ==
    /\ [](Pending => /\ dm.timers = 1
                     /\ ~vl.needUpdate
                     /\ phase = "mounted" => dm.updater)
    /\ [][UpdateRan => ev'.calls = 0 /\ ~Pending']_vars
    /\ [][ev.op = "update" /\ DidUpdateCall => ev'.calls = 0 /\ ~Pending']_vars
    /\ [][~Pending /\ Pending' =>
             /\ ev'.calls = 1
             /\ ev'.op \in {"setScrollOffset", "componentDidUpdate",
                            "updateVirutalListDataRange", "onStateChange",
                            "receiveProps"}
             /\ ev.op = "update" => ev'.op = "setScrollOffset"]_vars
    /\ [][Callback <=> UpdateRan]_vars
    /\ Pending ~> ~Pending
    /\ <>[][~ExternalEvent]_vars => <>[](~Pending)

\* update has run for a new offset and the componentDidUpdate of the
\* re-render has followed it: nothing is pending.
C16_Witness ==
    /\ ev.op = "componentDidUpdate"
    /\ ev.calls = 0
    /\ ev.pre.cached > 0
    /\ vl.offset > 0
    /\ reqs = 0
    /\ ~Pending

\* C17 (sticky-flag coherence): in every state a cached style has position
\* 'sticky' exactly when its index is in the current stickyIndices, and an
\* entry that update returned is styled sticky exactly when its index is a
\* sticky index; every change of stickyIndices reaches the component
\* through onStateChange.
C17_StickyCoherent ==
    /\ \A i \in DOMAIN vl.styleCache :
          vl.styleCache[i].position = "sticky" <=> IsSticky(i)
    /\ \A k \in 1..Len(ev.items) :
          ev.items[k].style.position = "sticky" <=> IsSticky(ev.items[k].index)

\* After a scroll, update returned the sticky index 1 styled sticky and
\* another index styled absolute.
C17_Witness ==
    /\ Returned
    /\ StickySeq = <<1>>
    /\ written > 0
    /\ \E k \in 1..Len(ev.items) :
          ev.items[k].index = 1 /\ ev.items[k].style.position = "sticky"
    /\ \E k \in 1..Len(ev.items) :
          ev.items[k].index # 1 /\ ev.items[k].style.position = "absolute"

\* C18 (initialization ordering): update and onStateChange are registered
\* with the data manager only once the SizeAndPositionManager exists, so
\* neither callback starts or ends with the manager undefined; a render
\* before mount reports a total size of 0.
C18_InitOrder ==
    /\ [](/\ dm.updater \/ dm.onStateChange => Manager.defined
          /\ ev.op \in {"update", "onStateChange"} => Manager.defined
          /\ ev.op = "render" /\ phase = "constructed" =>
                ev.out.inner[sizeProp(props.scrollDirection)] = Px(0))
    /\ [][ev'.op \in {"update", "onStateChange"} => Manager.defined]_vars

\* A render before mount: the list has items, no manager exists, no
\* callback is registered, and the total size reported is 0.
C18_Witness ==
    /\ ev.op = "render"
    /\ phase = "constructed"
    /\ dm.state.itemCount > 0
    /\ ~Manager.defined
    /\ ~dm.updater /\ ~dm.onStateChange
    /\ ev.out.inner[sizeProp(props.scrollDirection)] = Px(0)

\* C19 (frame of setScrollOffset): setScrollOffset, whatever its argument,
\* leaves the style cache and the manager (configuration and measurements)
\* as they were; a cached style disappears or changes only in onStateChange,
\* the one caller of recomputeSizes.
C19_ScrollFrame ==
    [][/\ ScrollCall =>
             /\ vl'.styleCache = vl.styleCache
             /\ vl'.sizeAndPositionManager = vl.sizeAndPositionManager
       /\ (\E i \in DOMAIN vl.styleCache :
              i \notin DOMAIN vl'.styleCache \/ vl'.styleCache[i] # vl.styleCache[i])
            => ev'.op = "onStateChange"]_vars

\* A scroll to a new offset requested a recompute and kept the cached
\* styles and the measurements.
C19_Witness ==
    /\ ev.op = "setScrollOffset"
    /\ ev.calls = 1
    /\ ev.arg = vl.offset
    /\ ev.pre.cached > 1
    /\ Cardinality(DOMAIN vl.styleCache) = ev.pre.cached
    /\ Manager.lastMeasuredIndex > 0

=============================================================================
